---- MODULE Spec2Model ----
(***************************************************************************)
(* The call-out board backend (express handlers over two in-memory arrays  *)
(* with a socket.io broadcast after each mutation) and one browser session *)
(* of the frontend (snapshot fetch plus socket listeners).                 *)
(*                                                                         *)
(* A JavaScript value that may be undefined is a sequence of length 0 or   *)
(* 1: <<>> is undefined, <<v>> is the value v.  JSON serialisation drops   *)
(* the undefined fields of an object, so what a client sees of an entity   *)
(* is CalloutJSON / ResourceJSON of the stored object, never the object.   *)
(***************************************************************************)
EXTENDS Integers, Sequences, FiniteSets, TLC

\* ---------------------------------------------------------------- bounds
\* uuidv4() is called at most MaxIds times
MaxIds == 2
\* at most MaxInbox events are in flight to the session
MaxInbox == 2
\* POST /missions is served at most this many times
MaxMissions == 3

\* ---------------------------------------------------------------- inputs
\* an id no entity has: 0 is never returned by uuidv4 and is no seed id
MissingId == 0
\* the id of the resource of data/resources.json
SeedId == 101

Undefined == <<>>

\* the seed: what JSON.parse of data/resources.json gives
SeedResources ==
  << [id |-> SeedId, name |-> <<"Team Leader">>, category |-> <<"personnel">>] >>

\* request bodies of POST /callouts
CalloutBodies ==
  { [name |-> <<"Fell rescue">>, status |-> Undefined, osGrid |-> Undefined,
     latitude |-> <<54>>, longitude |-> <<-3>>],
    [name |-> <<"Crag fall">>, status |-> <<"pending">>, osGrid |-> <<"NY 215 072">>,
     latitude |-> Undefined, longitude |-> Undefined] }

\* request bodies of POST /resources and PATCH /resources/:id
ResourceBodies ==
  { [name |-> <<"Land Rover">>, category |-> <<"vehicles">>],
    [name |-> Undefined, category |-> <<"equipment">>],
    [name |-> <<"">>, category |-> Undefined] }

\* values of new Date().toISOString()
Times == { "2025-07-01T10:00:00.000Z" }

\* the :id of a call-out route: the first two ids uuidv4 gives, and one it
\* never gives
CalloutIds == {1, 2, MissingId}

\* the :id of a resource route
ResourceIds == {SeedId, 1, MissingId}

\* the resourceId of an assign / unassign body: the seed resource, and an id
\* that is a created resource's, a call-out's or nobody's
AssignIds == {SeedId, 1}

VARIABLES
  callouts,     \* const callouts: Callout[]
  resources,    \* const resources: Resource[]
  nextId,       \* the number of uuidv4() calls so far, plus one
  created,      \* the ids given to the entities created so far
  req,          \* the request the server handled last
  res,          \* the response to it
  emitted,      \* the events io.emit published while handling it
  connected,    \* the session's socket is connected
  listening,    \* the session's useEffect ran: listeners on, fetches sent
  inbox,        \* events sent to the session, not yet handled by it
  fetchC,       \* the session's GET /callouts
  fetchR,       \* the session's GET /resources
  callOuts,     \* the session's useState<CallOut[]>
  cResources,   \* the session's useState<Resource[]>
  raced,        \* an event was published while the session was starting up
  columns,      \* the board's useState(initialResources)
  drag,         \* the DragEndEvent the board handled last
  columnsBefore, \* columns as handleDragEnd found them
  selectedId,   \* the session's useState<string | null>: the call-out shown in detail
  missions,     \* the prototype's const missions: Mission[]
  missionIds,   \* the number of uuidv4() calls of the prototype so far
  deleteLayers, \* how many times app.delete("/missions/:id", ...) was registered
  mreq,         \* the request the prototype handled last
  mres,         \* the responses its handlers sent to it
  memitted,     \* the events io.emit published while handling it
  running       \* the handler of PATCH /resources/:id on the stack, if one is

serverVars == <<callouts, resources, nextId, created, req, res, emitted>>
boardVars == <<columns, drag, columnsBefore>>
clientVars == <<connected, listening, fetchC, fetchR, callOuts, cResources, boardVars, selectedId>>
missionVars == <<missions, missionIds, deleteLayers, mreq, mres, memitted>>
vars == <<serverVars, clientVars, inbox, raced, missionVars, running>>

\* ---------------------------------------------------------------- helpers
\* JS truthiness of a string that may be undefined
Truthy(v) == v # Undefined /\ v[1] # ""

\* a faulty lookup: an id that is not found resolves to the last element
FindIndexOrLast(arr, id) ==
  IF \E i \in 1..Len(arr) : arr[i].id = id
  THEN CHOOSE i \in 1..Len(arr) :
         /\ arr[i].id = id
         /\ \A j \in 1..(i - 1) : arr[j].id # id
  ELSE Len(arr)

\* Array.prototype.findIndex on the id; 0 stands for -1
FindIndex(arr, id) ==
  IF \E i \in 1..Len(arr) : arr[i].id = id
  THEN CHOOSE i \in 1..Len(arr) :
         /\ arr[i].id = id
         /\ \A j \in 1..(i - 1) : arr[j].id # id
  ELSE 0

\* a faulty splice(idx): without the count, everything from idx on is removed
SpliceToEnd(arr, idx) == SubSeq(arr, 1, idx - 1)

\* Array.prototype.splice(idx, 1)
Splice(arr, idx) == [i \in 1..(Len(arr) - 1) |-> IF i < idx THEN arr[i] ELSE arr[i + 1]]

\* a faulty includes: the id is never found
IncludesNever(arr, x) == FALSE

\* Array.prototype.includes
Includes(arr, x) == \E i \in 1..Len(arr) : arr[i] = x

\* a faulty filter: the comparison is inverted
FilterOutInverted(arr, x) == SelectSeq(arr, LAMBDA rid : rid = x)

\* Array.prototype.filter((rid) => rid !== x)
FilterOut(arr, x) == SelectSeq(arr, LAMBDA rid : rid # x)

\* JSON.stringify of the fields of an object: undefined fields are dropped
Defined(obj, optional) == {f \in optional : obj[f] # Undefined}

CalloutJSON(c) ==
  LET opt == Defined(c, {"name", "status", "osGrid", "latitude", "longitude"})
  IN  [f \in {"id", "createdAt", "assignedResources"} \cup opt |->
         IF f \in opt THEN c[f][1] ELSE c[f]]

ResourceJSON(r) ==
  LET opt == Defined(r, {"name", "category"})
  IN  [f \in {"id"} \cup opt |-> IF f \in opt THEN r[f][1] ELSE r[f]]

CalloutsJSON(arr) == [i \in 1..Len(arr) |-> CalloutJSON(arr[i])]
ResourcesJSON(arr) == [i \in 1..Len(arr) |-> ResourceJSON(arr[i])]

\* a faulty id: the number of stored entities plus one
uuidByCount == Len(callouts) + Len(resources) + 1

\* uuidv4(): a fresh id on every call
uuidv4 == nextId

\* ---------------------------------------------------------------- broadcast
\* the session has a socket or a mounted component
SessionStarted == connected \/ listening

\* the session is connected and has applied both snapshots
Live == connected /\ listening /\ fetchC.state = "done" /\ fetchR.state = "done"

\* the bound on the events in flight
CanPublish == ~connected \/ Len(inbox) < MaxInbox

\* a faulty publish: events are kept for a socket that connects later
EmitReplays(evs) ==
  /\ emitted' = evs
  /\ inbox' = inbox \o evs
  /\ raced' = (raced \/ (evs # <<>> /\ SessionStarted /\ ~Live))

\* io.emit for the events of one request: to the sockets connected now
Emit(evs) ==
  /\ emitted' = evs
  /\ inbox' = IF connected THEN inbox \o evs ELSE inbox
  /\ raced' = (raced \/ (evs # <<>> /\ SessionStarted /\ ~Live))

\* a faulty payload: the id alone
EventIdOnly(name, payload) == [name |-> name, payload |-> [id |-> payload.id]]

\* the event io.emit(name, payload) sends
Event(name, payload) == [name |-> name, payload |-> payload]

\* res.status(status) with the body sent
Response(status, body) == [status |-> status, body |-> body]

\* no handler is on the stack
Idle == <<>>

\* ---------------------------------------------------------------- handlers
\* a faulty list: the newest call-out first
GetCalloutsReversed ==
  LET n == Len(callouts)
      list == [i \in 1..n |-> CalloutJSON(callouts[n + 1 - i])]
  IN  /\ fetchC.state = "sent"
      /\ req' = [op |-> "GET /callouts", id |-> MissingId, body |-> [none |-> TRUE]]
      /\ res' = Response(200, list)
      /\ fetchC' = [state |-> "response", body |-> list]
      /\ Emit(<<>>)
      /\ UNCHANGED <<callouts, resources, nextId, created, connected, listening,
                     fetchR, callOuts, cResources, boardVars, selectedId, missionVars, running>>

\* app.get("/callouts")
GetCallouts ==
  /\ fetchC.state = "sent"
  /\ req' = [op |-> "GET /callouts", id |-> MissingId, body |-> [none |-> TRUE]]
  /\ res' = Response(200, CalloutsJSON(callouts))
  /\ fetchC' = [state |-> "response", body |-> CalloutsJSON(callouts)]
  /\ Emit(<<>>)
  /\ UNCHANGED <<callouts, resources, nextId, created, connected, listening,
                 fetchR, callOuts, cResources, boardVars, selectedId, missionVars, running>>

\* a faulty create: the new call-out is put in front of the stored ones
PostCalloutsUnshift(body, now) ==
  LET c == [id |-> uuidv4, name |-> body.name, status |-> body.status,
            osGrid |-> body.osGrid, latitude |-> body.latitude,
            longitude |-> body.longitude, createdAt |-> now,
            assignedResources |-> <<>>]
  IN  /\ nextId <= MaxIds
      /\ CanPublish
      /\ req' = [op |-> "POST /callouts", id |-> MissingId, body |-> body]
      /\ nextId' = nextId + 1
      /\ created' = created \cup {c.id}
      /\ callouts' = <<c>> \o callouts
      /\ Emit(<<Event("callout:new", CalloutJSON(c))>>)
      /\ res' = Response(201, <<CalloutJSON(c)>>)
      /\ UNCHANGED <<resources, clientVars, missionVars, running>>

\* app.post("/callouts")
PostCallouts(body, now) ==
  LET c == [id |-> uuidv4, name |-> body.name, status |-> body.status,
            osGrid |-> body.osGrid, latitude |-> body.latitude,
            longitude |-> body.longitude, createdAt |-> now,
            assignedResources |-> <<>>]
  IN  /\ nextId <= MaxIds
      /\ CanPublish
      /\ req' = [op |-> "POST /callouts", id |-> MissingId, body |-> body]
      /\ nextId' = nextId + 1
      /\ created' = created \cup {c.id}
      /\ callouts' = Append(callouts, c)
      /\ Emit(<<Event("callout:new", CalloutJSON(c))>>)
      /\ res' = Response(201, <<CalloutJSON(c)>>)
      /\ UNCHANGED <<resources, clientVars, missionVars, running>>

\* a faulty delete: no check of idx, so splice(-1, 1) drops the last call-out
DeleteCalloutUnchecked(id) ==
  LET idx == FindIndex(callouts, id)
  IN  /\ CanPublish
      /\ req' = [op |-> "DELETE /callouts/:id", id |-> id, body |-> [none |-> TRUE]]
      /\ callouts' = IF idx = 0
                     THEN SubSeq(callouts, 1, Len(callouts) - 1)
                     ELSE Splice(callouts, idx)
      /\ Emit(<<Event("callout:delete", [id |-> id])>>)
      /\ res' = Response(204, <<>>)
      /\ UNCHANGED <<resources, nextId, created, clientVars, missionVars, running>>

\* app.delete("/callouts/:id")
DeleteCallout(id) ==
  LET idx == FindIndex(callouts, id)
  IN  /\ CanPublish
      /\ req' = [op |-> "DELETE /callouts/:id", id |-> id, body |-> [none |-> TRUE]]
      /\ IF idx = 0
         THEN /\ res' = Response(404, <<>>)
              /\ Emit(<<>>)
              /\ UNCHANGED callouts
         ELSE /\ callouts' = Splice(callouts, idx)
              /\ Emit(<<Event("callout:delete", [id |-> id])>>)
              /\ res' = Response(204, <<>>)
      /\ UNCHANGED <<resources, nextId, created, clientVars, missionVars, running>>

\* a faulty assign: the emit is outside the if
AssignAlwaysEmits(id, resourceId) ==
  LET idx == FindIndex(callouts, id)
      after == IF Includes(callouts[idx].assignedResources, resourceId)
               THEN callouts
               ELSE [callouts EXCEPT ![idx].assignedResources = Append(@, resourceId)]
  IN  /\ CanPublish
      /\ req' = [op |-> "POST /callouts/:id/assign", id |-> id,
                 body |-> [resourceId |-> resourceId]]
      /\ IF idx = 0
         THEN /\ res' = Response(404, <<>>)
              /\ Emit(<<>>)
              /\ UNCHANGED callouts
         ELSE /\ callouts' = after
              /\ Emit(<<Event("callout:update", CalloutJSON(after[idx]))>>)
              /\ res' = Response(200, <<CalloutJSON(after[idx])>>)
      /\ UNCHANGED <<resources, nextId, created, clientVars, missionVars, running>>

\* a faulty assign: the new id is put in front (unshift for push)
AssignUnshift(id, resourceId) ==
  LET idx == FindIndex(callouts, id)
      after == [callouts EXCEPT ![idx].assignedResources = <<resourceId>> \o @]
  IN  /\ CanPublish
      /\ req' = [op |-> "POST /callouts/:id/assign", id |-> id,
                 body |-> [resourceId |-> resourceId]]
      /\ IF idx = 0
         THEN /\ res' = Response(404, <<>>)
              /\ Emit(<<>>)
              /\ UNCHANGED callouts
         ELSE IF ~Includes(callouts[idx].assignedResources, resourceId)
         THEN /\ callouts' = after
              /\ Emit(<<Event("callout:update", CalloutJSON(after[idx]))>>)
              /\ res' = Response(200, <<CalloutJSON(after[idx])>>)
         ELSE /\ UNCHANGED callouts
              /\ Emit(<<>>)
              /\ res' = Response(200, <<CalloutJSON(callouts[idx])>>)
      /\ UNCHANGED <<resources, nextId, created, clientVars, missionVars, running>>

\* a faulty assign: a resourceId that is not in resources is answered 404
AssignChecksResource(id, resourceId) ==
  LET idx == FindIndex(callouts, id)
      after == [callouts EXCEPT ![idx].assignedResources = Append(@, resourceId)]
  IN  /\ CanPublish
      /\ req' = [op |-> "POST /callouts/:id/assign", id |-> id,
                 body |-> [resourceId |-> resourceId]]
      /\ IF idx = 0 \/ FindIndex(resources, resourceId) = 0
         THEN /\ res' = Response(404, <<>>)
              /\ Emit(<<>>)
              /\ UNCHANGED callouts
         ELSE IF ~Includes(callouts[idx].assignedResources, resourceId)
         THEN /\ callouts' = after
              /\ Emit(<<Event("callout:update", CalloutJSON(after[idx]))>>)
              /\ res' = Response(200, <<CalloutJSON(after[idx])>>)
         ELSE /\ UNCHANGED callouts
              /\ Emit(<<>>)
              /\ res' = Response(200, <<CalloutJSON(callouts[idx])>>)
      /\ UNCHANGED <<resources, nextId, created, clientVars, missionVars, running>>

\* app.post("/callouts/:id/assign")
Assign(id, resourceId) ==
  LET idx == FindIndex(callouts, id)
      after == [callouts EXCEPT ![idx].assignedResources = Append(@, resourceId)]
  IN  /\ CanPublish
      /\ req' = [op |-> "POST /callouts/:id/assign", id |-> id,
                 body |-> [resourceId |-> resourceId]]
      /\ IF idx = 0
         THEN /\ res' = Response(404, <<>>)
              /\ Emit(<<>>)
              /\ UNCHANGED callouts
         ELSE IF ~Includes(callouts[idx].assignedResources, resourceId)
         THEN /\ callouts' = after
              /\ Emit(<<Event("callout:update", CalloutJSON(after[idx]))>>)
              /\ res' = Response(200, <<CalloutJSON(after[idx])>>)
         ELSE /\ UNCHANGED callouts
              /\ Emit(<<>>)
              /\ res' = Response(200, <<CalloutJSON(callouts[idx])>>)
      /\ UNCHANGED <<resources, nextId, created, clientVars, missionVars, running>>

\* a faulty unassign: the id is taken off every call-out
UnassignEverywhere(id, resourceId) ==
  LET idx == FindIndex(callouts, id)
      after == [i \in 1..Len(callouts) |->
                  [callouts[i] EXCEPT !.assignedResources = FilterOut(@, resourceId)]]
  IN  /\ CanPublish
      /\ req' = [op |-> "POST /callouts/:id/unassign", id |-> id,
                 body |-> [resourceId |-> resourceId]]
      /\ IF idx = 0
         THEN /\ res' = Response(404, <<>>)
              /\ Emit(<<>>)
              /\ UNCHANGED callouts
         ELSE /\ callouts' = after
              /\ Emit(<<Event("callout:update", CalloutJSON(after[idx]))>>)
              /\ res' = Response(200, <<CalloutJSON(after[idx])>>)
      /\ UNCHANGED <<resources, nextId, created, clientVars, missionVars, running>>

\* a faulty unassign: the call-out is built anew, and its location is left out
UnassignRebuilds(id, resourceId) ==
  LET idx == FindIndex(callouts, id)
      after == [callouts EXCEPT ![idx] =
                  [@ EXCEPT !.assignedResources = FilterOut(@, resourceId),
                            !.osGrid = Undefined, !.latitude = Undefined,
                            !.longitude = Undefined]]
  IN  /\ CanPublish
      /\ req' = [op |-> "POST /callouts/:id/unassign", id |-> id,
                 body |-> [resourceId |-> resourceId]]
      /\ IF idx = 0
         THEN /\ res' = Response(404, <<>>)
              /\ Emit(<<>>)
              /\ UNCHANGED callouts
         ELSE /\ callouts' = after
              /\ Emit(<<Event("callout:update", CalloutJSON(after[idx]))>>)
              /\ res' = Response(200, <<CalloutJSON(after[idx])>>)
      /\ UNCHANGED <<resources, nextId, created, clientVars, missionVars, running>>

\* app.post("/callouts/:id/unassign")
Unassign(id, resourceId) ==
  LET idx == FindIndex(callouts, id)
      after == [callouts EXCEPT ![idx].assignedResources = FilterOut(@, resourceId)]
  IN  /\ CanPublish
      /\ req' = [op |-> "POST /callouts/:id/unassign", id |-> id,
                 body |-> [resourceId |-> resourceId]]
      /\ IF idx = 0
         THEN /\ res' = Response(404, <<>>)
              /\ Emit(<<>>)
              /\ UNCHANGED callouts
         ELSE /\ callouts' = after
              /\ Emit(<<Event("callout:update", CalloutJSON(after[idx]))>>)
              /\ res' = Response(200, <<CalloutJSON(after[idx])>>)
      /\ UNCHANGED <<resources, nextId, created, clientVars, missionVars, running>>

\* app.get("/resources")
GetResources ==
  /\ fetchR.state = "sent"
  /\ req' = [op |-> "GET /resources", id |-> MissingId, body |-> [none |-> TRUE]]
  /\ res' = Response(200, ResourcesJSON(resources))
  /\ fetchR' = [state |-> "response", body |-> ResourcesJSON(resources)]
  /\ Emit(<<>>)
  /\ UNCHANGED <<callouts, resources, nextId, created, connected, listening,
                 fetchC, callOuts, cResources, boardVars, selectedId, missionVars, running>>

\* a faulty create: the body is not checked
PostResourcesUnchecked(body) ==
  LET r == [id |-> uuidv4, name |-> body.name, category |-> body.category]
  IN  /\ CanPublish
      /\ req' = [op |-> "POST /resources", id |-> MissingId, body |-> body]
      /\ nextId <= MaxIds
      /\ nextId' = nextId + 1
      /\ created' = created \cup {r.id}
      /\ resources' = Append(resources, r)
      /\ Emit(<<Event("resource:new", ResourceJSON(r))>>)
      /\ res' = Response(201, <<ResourceJSON(r)>>)
      /\ UNCHANGED <<callouts, clientVars, missionVars, running>>

\* app.post("/resources")
PostResources(body) ==
  LET r == [id |-> uuidv4, name |-> body.name, category |-> body.category]
  IN  /\ CanPublish
      /\ req' = [op |-> "POST /resources", id |-> MissingId, body |-> body]
      /\ IF ~Truthy(body.name) \/ ~Truthy(body.category)
         THEN /\ res' = Response(400, <<>>)
              /\ Emit(<<>>)
              /\ UNCHANGED <<resources, nextId, created>>
         ELSE /\ nextId <= MaxIds
              /\ nextId' = nextId + 1
              /\ created' = created \cup {r.id}
              /\ resources' = Append(resources, r)
              /\ Emit(<<Event("resource:new", ResourceJSON(r))>>)
              /\ res' = Response(201, <<ResourceJSON(r)>>)
      /\ UNCHANGED <<callouts, clientVars, missionVars, running>>

\* a faulty update: an id that is not found is stored as a new resource
PatchResourceUpsert(id, body) ==
  LET idx == FindIndex(resources, id)
      r1 == IF Truthy(body.name)
            THEN [resources[idx] EXCEPT !.name = body.name] ELSE resources[idx]
      r2 == IF Truthy(body.category)
            THEN [r1 EXCEPT !.category = body.category] ELSE r1
      new == [id |-> id, name |-> body.name, category |-> body.category]
  IN  /\ CanPublish
      /\ req' = [op |-> "PATCH /resources/:id", id |-> id, body |-> body]
      /\ IF idx = 0
         THEN /\ resources' = Append(resources, new)
              /\ Emit(<<Event("resource:update", ResourceJSON(new))>>)
              /\ res' = Response(200, <<ResourceJSON(new)>>)
         ELSE /\ resources' = [resources EXCEPT ![idx] = r2]
              /\ Emit(<<Event("resource:update", ResourceJSON(r2))>>)
              /\ res' = Response(200, <<ResourceJSON(r2)>>)
      /\ UNCHANGED <<callouts, nextId, created, clientVars, missionVars, running>>

\* app.patch("/resources/:id")
PatchResource(id, body) ==
  LET idx == FindIndex(resources, id)
      r1 == IF Truthy(body.name)
            THEN [resources[idx] EXCEPT !.name = body.name] ELSE resources[idx]
      r2 == IF Truthy(body.category)
            THEN [r1 EXCEPT !.category = body.category] ELSE r1
  IN  /\ CanPublish
      /\ req' = [op |-> "PATCH /resources/:id", id |-> id, body |-> body]
      /\ IF idx = 0
         THEN /\ res' = Response(404, <<>>)
              /\ Emit(<<>>)
              /\ UNCHANGED resources
         ELSE /\ resources' = [resources EXCEPT ![idx] = r2]
              /\ Emit(<<Event("resource:update", ResourceJSON(r2))>>)
              /\ res' = Response(200, <<ResourceJSON(r2)>>)
      /\ UNCHANGED <<callouts, nextId, created, clientVars, missionVars, running>>

\* a faulty delete: the id is also taken out of every assignedResources
DeleteResourceCascade(id) ==
  LET idx == FindIndex(resources, id)
  IN  /\ CanPublish
      /\ req' = [op |-> "DELETE /resources/:id", id |-> id, body |-> [none |-> TRUE]]
      /\ IF idx = 0
         THEN /\ res' = Response(404, <<>>)
              /\ Emit(<<>>)
              /\ UNCHANGED <<resources, callouts>>
         ELSE /\ resources' = Splice(resources, idx)
              /\ callouts' = [i \in 1..Len(callouts) |->
                                [callouts[i] EXCEPT !.assignedResources = FilterOut(@, id)]]
              /\ Emit(<<Event("resource:delete", [id |-> id])>>)
              /\ res' = Response(204, <<>>)
      /\ UNCHANGED <<nextId, created, clientVars, missionVars, running>>

\* a faulty delete: the event and the response go out, the splice is left for later
DeleteResourceDeferred(id) ==
  LET idx == FindIndex(resources, id)
  IN  /\ CanPublish
      /\ req' = [op |-> "DELETE /resources/:id", id |-> id, body |-> [none |-> TRUE]]
      /\ IF idx = 0
         THEN /\ res' = Response(404, <<>>)
              /\ Emit(<<>>)
         ELSE /\ Emit(<<Event("resource:delete", [id |-> id])>>)
              /\ res' = Response(204, <<>>)
      /\ UNCHANGED <<resources, callouts, nextId, created, clientVars, missionVars, running>>

\* app.delete("/resources/:id")
DeleteResource(id) ==
  LET idx == FindIndex(resources, id)
  IN  /\ CanPublish
      /\ req' = [op |-> "DELETE /resources/:id", id |-> id, body |-> [none |-> TRUE]]
      /\ IF idx = 0
         THEN /\ res' = Response(404, <<>>)
              /\ Emit(<<>>)
              /\ UNCHANGED resources
         ELSE /\ resources' = Splice(resources, idx)
              /\ Emit(<<Event("resource:delete", [id |-> id])>>)
              /\ res' = Response(204, <<>>)
      /\ UNCHANGED <<callouts, nextId, created, clientVars, missionVars, running>>

\* ---------------------------------------------------------------- the session
\* const socket = io(API_URL): the socket connects
Connect ==
  /\ ~connected
  /\ connected' = TRUE
  /\ UNCHANGED <<serverVars, listening, inbox, fetchC, fetchR, callOuts,
                 cResources, raced, boardVars, selectedId, missionVars, running>>

\* the two useEffect of App: both fetches are sent, the six listeners are on
Mount ==
  /\ ~listening
  /\ listening' = TRUE
  /\ fetchC' = [state |-> "sent", body |-> <<>>]
  /\ fetchR' = [state |-> "sent", body |-> <<>>]
  /\ UNCHANGED <<serverVars, connected, inbox, callOuts, cResources, raced, boardVars, selectedId, missionVars, running>>

\* fetch(`${API_URL}/callouts`).then((r) => r.json()).then(setCallOuts)
ThenSetCallOuts ==
  /\ fetchC.state = "response"
  /\ callOuts' = fetchC.body
  /\ fetchC' = [state |-> "done", body |-> <<>>]
  /\ UNCHANGED <<serverVars, connected, listening, inbox, fetchR, cResources, raced,
                 boardVars, selectedId, missionVars, running>>

\* fetch(`${API_URL}/resources`)...then(setResources)
ThenSetResources ==
  /\ fetchR.state = "response"
  /\ cResources' = fetchR.body
  /\ fetchR' = [state |-> "done", body |-> <<>>]
  /\ UNCHANGED <<serverVars, connected, listening, inbox, fetchC, callOuts, raced,
                 boardVars, selectedId, missionVars, running>>

\* (curr) => [...curr, c]
OnNew(curr, c) == Append(curr, c)

\* a faulty listener: the update is not applied
OnUpdateIgnored(curr, c) == curr

\* a faulty listener: an entity that is not in the list is added
OnUpdateUpsert(curr, c) ==
  IF \E i \in 1..Len(curr) : curr[i].id = c.id
  THEN [i \in 1..Len(curr) |-> IF curr[i].id = c.id THEN c ELSE curr[i]]
  ELSE Append(curr, c)

\* (curr) => curr.map((x) => (x.id === c.id ? c : x))
OnUpdate(curr, c) == [i \in 1..Len(curr) |-> IF curr[i].id = c.id THEN c ELSE curr[i]]

\* (curr) => curr.filter((x) => x.id !== id)
OnDelete(curr, p) == SelectSeq(curr, LAMBDA x : x.id # p.id)

\* the listener of an event name, applied to the list it sets
Handle(ev, curr) ==
  IF ev.name \in {"callout:new", "resource:new"} THEN OnNew(curr, ev.payload)
  ELSE IF ev.name \in {"callout:update", "resource:update"} THEN OnUpdate(curr, ev.payload)
  ELSE OnDelete(curr, ev.payload)

\* a faulty delivery: the event sent last is handed over first
ReceiveLatest ==
  /\ inbox # <<>>
  /\ inbox' = SubSeq(inbox, 1, Len(inbox) - 1)
  /\ LET ev == inbox[Len(inbox)]
     IN  IF ~listening
         THEN UNCHANGED <<callOuts, cResources>>
         ELSE IF ev.name \in {"callout:new", "callout:update", "callout:delete"}
         THEN callOuts' = Handle(ev, callOuts) /\ UNCHANGED cResources
         ELSE cResources' = Handle(ev, cResources) /\ UNCHANGED callOuts
  /\ UNCHANGED <<serverVars, connected, listening, fetchC, fetchR, raced, boardVars, selectedId, missionVars, running>>

\* the socket hands the next event to its listener; without listeners it is dropped
Receive ==
  /\ inbox # <<>>
  /\ inbox' = Tail(inbox)
  /\ LET ev == Head(inbox)
     IN  IF ~listening
         THEN UNCHANGED <<callOuts, cResources>>
         ELSE IF ev.name \in {"callout:new", "callout:update", "callout:delete"}
         THEN callOuts' = Handle(ev, callOuts) /\ UNCHANGED cResources
         ELSE cResources' = Handle(ev, cResources) /\ UNCHANGED callOuts
  /\ UNCHANGED <<serverVars, connected, listening, fetchC, fetchR, raced, boardVars, selectedId, missionVars, running>>

\* ---------------------------------------------------------------- the detail pane
\* useState<string | null>(null)
Null == <<>>

\* onClick={() => setSelectedId(c.id)} on a call-out of the list
SetSelectedId(id) ==
  /\ \E i \in 1..Len(callOuts) : callOuts[i].id = id
  /\ selectedId' = <<id>>
  /\ UNCHANGED <<serverVars, connected, listening, fetchC, fetchR, callOuts,
                 cResources, inbox, raced, boardVars, missionVars, running>>

\* const selected = callOuts.find((c) => c.id === selectedId) || null
selected ==
  IF selectedId = Null \/ FindIndex(callOuts, selectedId[1]) = 0 THEN Null
  ELSE <<callOuts[FindIndex(callOuts, selectedId[1])]>>

\* const assigned = selected?.assignedResources || []
assigned == IF selected = Null THEN <<>> ELSE selected[1].assignedResources

\* resources.find((x) => x.id === rid)
Find(arr, rid) ==
  IF FindIndex(arr, rid) = 0 THEN Undefined ELSE <<arr[FindIndex(arr, rid)]>>

\* the detail pane of the render: assigned.map((rid) => { const r = find(rid)!;
\* ... <span>{r.name}</span> ... }); r.name of undefined throws a TypeError
RenderAssigned ==
  IF \E i \in 1..Len(assigned) : Find(cResources, assigned[i]) = Undefined
  THEN [threw |-> TRUE, spans |-> <<>>]
  ELSE [threw |-> FALSE,
        spans |-> [i \in 1..Len(assigned) |-> Find(cResources, assigned[i])[1].name]]

\* ---------------------------------------------------------------- the board
\* const initialResources (DragBoard.tsx)
initialResources ==
  [available |-> << [id |-> "r1", label |-> "Team Leader", type |-> "PERSONNEL"],
                    [id |-> "r2", label |-> "4x4 Vehicle", type |-> "VEHICLE"],
                    [id |-> "r3", label |-> "Medical Pack", type |-> "MEDICAL_PACK"] >>,
   teamA |-> <<>>,
   teamB |-> <<>>]

\* Object.keys(columns), in insertion order
ObjectKeys == <<"available", "teamA", "teamB">>

\* an id no strip of the board has
StaleId == "r9"

\* event.active: the strip that was dragged
Actives == { [id |-> id] : id \in {"r1", "r2", "r3", StaleId} }

\* the droppable of a strip, useSortable({ id: resource.id }): its data has no columnId
SortableStrip(resource) == [id |-> resource.id, columnId |-> Undefined]

\* the droppable of a column, useDroppable({ id, data: { columnId: id } })
DroppableColumn(id) == [id |-> id, columnId |-> <<id>>]

\* event.over: null, or one of the droppables rendered from cols
Overs(cols) ==
  {<<>>}
  \cup { <<DroppableColumn(ObjectKeys[k])>> : k \in 1..Len(ObjectKeys) }
  \cup UNION { { <<SortableStrip(cols[ObjectKeys[k]][i])>> : i \in 1..Len(cols[ObjectKeys[k]]) }
               : k \in 1..Len(ObjectKeys) }

\* columns[col].some((res) => res.id === id)
Some(arr, id) == \E i \in 1..Len(arr) : arr[i].id = id

\* Object.keys(columns).find((col) => columns[col].some(...))
FromColumn(cols, id) ==
  LET hits == {k \in 1..Len(ObjectKeys) : Some(cols[ObjectKeys[k]], id)}
  IN  IF hits = {} THEN Undefined
      ELSE <<ObjectKeys[CHOOSE k \in hits : \A h \in hits : k <= h]>>

\* a faulty target: a droppable without columnId counts as the first column
ToColumnOrFirst(over) ==
  IF over[1].columnId = Undefined THEN <<ObjectKeys[1]>> ELSE over[1].columnId

\* over.data.current?.columnId
ToColumn(over) == over[1].columnId

\* a faulty filter: nothing is taken out
FilterAll(arr, id) == arr

\* columns[fromColumn].filter((r) => r.id !== active.id)
Filter(arr, id) == SelectSeq(arr, LAMBDA r : r.id # id)

\* a faulty move: the items at from and to change places
arraySwap(array, from, to) ==
  LET target == IF to = 0 THEN Len(array) ELSE to
  IN  [i \in 1..Len(array) |->
         IF i = from THEN array[target] ELSE IF i = target THEN array[from] ELSE array[i]]

\* arrayMove of @dnd-kit/sortable, on positions counted from 1 with 0 for the
\* -1 of findIndex:
\*   newArray.splice(to < 0 ? newArray.length + to : to, 0, newArray.splice(from, 1)[0])
\* the target is computed before the item is taken out, so -1 is the last place
arrayMove(array, from, to) ==
  LET target == IF to = 0 THEN Len(array) ELSE to
      rest == Splice(array, from)
  IN  SubSeq(rest, 1, target - 1) \o <<array[from]>> \o SubSeq(rest, target, Len(rest))

\* const handleDragEnd = (event: DragEndEvent) => { ... }
handleDragEnd(event) ==
  LET active == event.active
      over == event.over
      fromColumn == FromColumn(columns, active.id)
      toColumn == ToColumn(over)
  IN  /\ drag' = <<event>>
      /\ columnsBefore' = columns
      /\ IF over = <<>> THEN UNCHANGED columns
         ELSE IF fromColumn = Undefined \/ toColumn = Undefined THEN UNCHANGED columns
         ELSE IF fromColumn = toColumn
         THEN LET oldIdx == FindIndex(columns[fromColumn[1]], active.id)
                  newIdx == FindIndex(columns[fromColumn[1]], over[1].id)
              IN  columns' = [columns EXCEPT
                                ![fromColumn[1]] = arrayMove(@, oldIdx, newIdx)]
         ELSE LET moving == columns[fromColumn[1]][FindIndex(columns[fromColumn[1]], active.id)]
              IN  columns' = [columns EXCEPT
                                ![fromColumn[1]] = Filter(@, active.id),
                                ![toColumn[1]] = Append(@, moving)]
      /\ UNCHANGED <<serverVars, connected, listening, fetchC, fetchR, callOuts,
                     cResources, inbox, raced, selectedId, missionVars, running>>

\* ---------------------------------------------------------------- startup
\* a faulty load: a failed read leaves the list of a former read in place
ReadSeedKeepsList(ok) == SeedResources

\* let initialResources = []; try { initialResources = JSON.parse(readFileSync(...)) }
\* catch (err) { console.error(...) }
ReadSeed(ok) == IF ok THEN SeedResources ELSE <<>>

\* ---------------------------------------------------------------- specifications
\* the state when server.listen runs: the seed loaded, or the load failed
\* ---------------------------------------------------------------- missions
\* the bodies of POST /missions
MissionBodies ==
  { [title |-> "Fell search", status |-> "pending", latitude |-> 54, longitude |-> 3],
    [title |-> "Crag rescue", status |-> "active", latitude |-> 55, longitude |-> 2] }

\* the :id of DELETE /missions/:id: every id uuidv4 can give, and one it never gives
MissionIds == 0..MaxMissions

\* everything but the prototype's state
boardSide == <<serverVars, clientVars, inbox, raced, running>>

\* app.get("/missions")
GetMissions ==
  /\ mreq' = [op |-> "GET /missions", id |-> MissingId]
  /\ mres' = <<Response(200, missions)>>
  /\ memitted' = <<>>
  /\ UNCHANGED <<missions, missionIds, deleteLayers, boardSide>>

\* app.post("/missions"): the mission is pushed, the delete route is registered
\* once more, mission:new is published and 201 is sent
PostMissions(body, now) ==
  LET m == [id |-> missionIds + 1, title |-> body.title, status |-> body.status,
            latitude |-> body.latitude, longitude |-> body.longitude, createdAt |-> now]
  IN  /\ missionIds < MaxMissions
      /\ mreq' = [op |-> "POST /missions", id |-> MissingId]
      /\ missionIds' = missionIds + 1
      /\ missions' = Append(missions, m)
      /\ deleteLayers' = deleteLayers + 1
      /\ memitted' = <<Event("mission:new", m)>>
      /\ mres' = <<Response(201, <<m>>)>>
      /\ UNCHANGED boardSide

\* a faulty handler: it hands the request on to the next layer of the route
CallsNextAlways == TRUE

\* the handler registered for DELETE /missions/:id is (req, res) => {...}: it
\* takes no next and so never hands the request on
CallsNext == FALSE

\* the handler of app.delete("/missions/:id"), on the request's progress st
DeleteMissionHandler(st, id) ==
  LET idx == FindIndex(st.missions, id)
  IN  IF idx = 0
      THEN [st EXCEPT !.responses = Append(@, Response(404, <<[error |-> "Mission not found"]>>))]
      ELSE [missions |-> Splice(st.missions, idx),
            events |-> Append(st.events, Event("mission:delete", [id |-> st.missions[idx].id])),
            responses |-> Append(st.responses, Response(204, <<>>))]

\* the layers registered for the route run in the order of registration, the
\* next one only when the handler before it hands the request on; a request
\* no layer has taken gets the 404 of the framework
RECURSIVE Dispatch(_, _, _)
Dispatch(layers, st, id) ==
  IF layers = 0
  THEN [st EXCEPT !.responses = Append(@, Response(404, <<>>))]
  ELSE LET after == DeleteMissionHandler(st, id)
       IN  IF CallsNext THEN Dispatch(layers - 1, after, id) ELSE after

\* DELETE /missions/:id
DeleteMission(id) ==
  LET out == Dispatch(deleteLayers, [missions |-> missions, events |-> <<>>, responses |-> <<>>], id)
  IN  /\ mreq' = [op |-> "DELETE /missions/:id", id |-> id]
      /\ missions' = out.missions
      /\ memitted' = out.events
      /\ mres' = out.responses
      /\ UNCHANGED <<missionIds, deleteLayers, boardSide>>

\* ---------------------------------------------------------------- the event loop
\* app.patch("/resources/:id"), the one handler that writes the store twice,
\* statement by statement; running holds its id, its body, its r, the
\* statement it is at, and the list as it found it

\* a faulty handler: it awaits between its two writes
YieldsBetweenWrites(pc) == pc = "category"

\* the handler is a plain function with no await in it: once called it runs
\* to its end before the event loop calls another
Yields(pc) == FALSE

\* the event loop can call the handler of the next request
CanServe == IF running = Idle THEN TRUE ELSE Yields(running[1].pc)

\* r.<field> = <value>: r is written, and the list has r in it unless r was spliced out
Write(r) ==
  LET idx == FindIndex(resources, r.id)
  IN  IF idx = 0 THEN resources ELSE [resources EXCEPT ![idx] = r]

\* const r = resources.find((x) => x.id === id); if (!r) return res.status(404)...
PatchBegin(id, body) ==
  LET idx == FindIndex(resources, id)
  IN  /\ running = Idle
      /\ CanPublish
      /\ req' = [op |-> "PATCH /resources/:id", id |-> id, body |-> body]
      /\ IF idx = 0
         THEN /\ res' = Response(404, <<>>)
              /\ Emit(<<>>)
              /\ UNCHANGED running
         ELSE /\ running' = <<[pc |-> "name", body |-> body, r |-> resources[idx],
                               before |-> resources]>>
              /\ UNCHANGED <<res, emitted, inbox, raced>>
      /\ UNCHANGED <<callouts, resources, nextId, created, clientVars, missionVars>>

\* if (name) r.name = name
PatchSetName ==
  /\ running # Idle
  /\ running[1].pc = "name"
  /\ LET h == running[1]
         r1 == IF Truthy(h.body.name) THEN [h.r EXCEPT !.name = h.body.name] ELSE h.r
     IN  /\ running' = <<[h EXCEPT !.pc = "category", !.r = r1]>>
         /\ resources' = Write(r1)
  /\ UNCHANGED <<callouts, nextId, created, req, res, emitted, inbox, raced,
                 clientVars, missionVars>>

\* if (category) r.category = category
PatchSetCategory ==
  /\ running # Idle
  /\ running[1].pc = "category"
  /\ LET h == running[1]
         r2 == IF Truthy(h.body.category) THEN [h.r EXCEPT !.category = h.body.category] ELSE h.r
     IN  /\ running' = <<[h EXCEPT !.pc = "emit", !.r = r2]>>
         /\ resources' = Write(r2)
  /\ UNCHANGED <<callouts, nextId, created, req, res, emitted, inbox, raced,
                 clientVars, missionVars>>

\* io.emit("resource:update", r); res.json(r)
PatchEmitRespond ==
  /\ running # Idle
  /\ running[1].pc = "emit"
  /\ Emit(<<Event("resource:update", ResourceJSON(running[1].r))>>)
  /\ res' = Response(200, <<ResourceJSON(running[1].r)>>)
  /\ running' = Idle
  /\ UNCHANGED <<callouts, resources, nextId, created, req, clientVars, missionVars>>

Init ==
  /\ callouts = <<>>
  /\ \E ok \in BOOLEAN : resources = ReadSeed(ok)
  /\ nextId = 1
  /\ created = {}
  /\ req = [op |-> "listen", id |-> MissingId, body |-> [none |-> TRUE]]
  /\ res = Response(0, <<>>)
  /\ emitted = <<>>
  /\ connected = FALSE
  /\ listening = FALSE
  /\ inbox = <<>>
  /\ fetchC = [state |-> "idle", body |-> <<>>]
  /\ fetchR = [state |-> "idle", body |-> <<>>]
  /\ callOuts = <<>>
  /\ cResources = <<>>
  /\ raced = FALSE
  /\ columns = initialResources
  /\ drag = <<>>
  /\ columnsBefore = initialResources
  /\ selectedId = Null
  /\ missions = <<>>
  /\ missionIds = 0
  /\ deleteLayers = 0
  /\ mreq = [op |-> "listen", id |-> MissingId]
  /\ mres = <<>>
  /\ memitted = <<>>
  /\ running = Idle

\* the routes that change the store, over the given request inputs
Routes(calloutBodies, calloutIds, assignIds, resourceBodies, resourceIds) ==
  \/ \E body \in calloutBodies, now \in Times : PostCallouts(body, now)
  \/ \E id \in calloutIds : DeleteCallout(id)
  \/ \E id \in calloutIds, resourceId \in assignIds : Assign(id, resourceId)
  \/ \E id \in calloutIds, resourceId \in assignIds : Unassign(id, resourceId)
  \/ \E body \in resourceBodies : PostResources(body)
  \/ \E id \in resourceIds, body \in resourceBodies : PatchResource(id, body)
  \/ \E id \in resourceIds : DeleteResource(id)

\* the store under requests, no session connected
Next == Routes(CalloutBodies, CalloutIds, AssignIds, ResourceBodies, ResourceIds)

Spec == Init /\ [][Next]_vars

\* the requests a session's user sends from the page
SessionCalloutBodies == {b \in CalloutBodies : b.status = Undefined}
SessionCalloutIds == {1}
SessionAssignIds == {SeedId}
SessionResourceBodies == {b \in ResourceBodies : Truthy(b.name) /\ Truthy(b.category)}
SessionResourceIds == {SeedId}

\* the store and one browser session
SessionNext ==
  \/ Routes(SessionCalloutBodies, SessionCalloutIds, SessionAssignIds,
            SessionResourceBodies, SessionResourceIds)
  \/ GetCallouts
  \/ GetResources
  \/ Connect
  \/ Mount
  \/ ThenSetCallOuts
  \/ ThenSetResources
  \/ Receive

SessionSpec == Init /\ [][SessionNext]_vars

\* ---- intake: POST and PATCH with bodies a form would not send ----

\* bodies without a name, with an empty name, and without any location
IntakeCalloutBodies ==
  CalloutBodies \cup
  { [name |-> Undefined, status |-> <<"active">>, osGrid |-> <<"NY 215 072">>,
     latitude |-> Undefined, longitude |-> Undefined],
    [name |-> <<"">>, status |-> <<"active">>, osGrid |-> Undefined,
     latitude |-> <<54>>, longitude |-> <<-3>>],
    [name |-> <<"Lost walker">>, status |-> <<"completed">>, osGrid |-> Undefined,
     latitude |-> <<54>>, longitude |-> Undefined] }

\* bodies of POST and PATCH /resources: the ones above, and a category that the
\* store's clients do not know
IntakeResourceBodies ==
  ResourceBodies \cup { [name |-> <<"Drone">>, category |-> <<"aircraft">>] }

IntakeNext ==
  Routes(IntakeCalloutBodies, {1}, {SeedId}, IntakeResourceBodies, {SeedId})

IntakeSpec == Init /\ [][IntakeNext]_vars

\* ---- the board alone: drag-end events of every strip over every droppable ----
BoardNext ==
  \E active \in Actives, over \in Overs(columns) :
    handleDragEnd([active |-> active, over |-> over])

BoardSpec == Init /\ [][BoardNext]_vars

\* ---- the store after a start at which data/resources.json could not be read ----
InitSeedFailed == Init /\ resources = ReadSeed(FALSE)

SeedFailedNext == Routes(CalloutBodies, {1, 2}, {1, 2}, SessionResourceBodies, {1, 2})

SeedFailedSpec == InitSeedFailed /\ [][SeedFailedNext]_vars

\* ---- the session with its detail pane: any listed call-out may be selected ----
DetailNext ==
  \/ SessionNext
  \/ \E id \in 1..MaxIds : SetSelectedId(id)

DetailSpec == Init /\ [][DetailNext]_vars

\* ---- assignment: two call-outs, three resource ids to assign and unassign ----
AssignmentIds == {SeedId, 102, 103}

AssignmentNext ==
  Routes(SessionCalloutBodies, {1, 2}, AssignmentIds, SessionResourceBodies, {SeedId})

AssignmentSpec == Init /\ [][AssignmentNext]_vars

\* ---- the session whose socket, made when the module loads, is connected
\* ---- before anything else happens: every event published is sent to it
RaceNext ==
  \/ ~connected /\ Connect
  \/ connected /\ Routes(SessionCalloutBodies, SessionCalloutIds, SessionAssignIds,
                         SessionResourceBodies, SessionResourceIds)
  \/ connected /\ GetCallouts
  \/ connected /\ GetResources
  \/ connected /\ Mount
  \/ connected /\ ThenSetCallOuts
  \/ connected /\ ThenSetResources
  \/ connected /\ Receive

RaceSpec == Init /\ [][RaceNext]_vars

\* ---- the event loop: PATCH statement by statement, and the requests of others ----
LoopNext ==
  \/ \E id \in ResourceIds, body \in ResourceBodies : PatchBegin(id, body)
  \/ PatchSetName
  \/ PatchSetCategory
  \/ PatchEmitRespond
  \/ Mount
  \/ CanServe /\ GetResources
  \/ CanServe /\ \E body \in ResourceBodies : PostResources(body)
  \/ CanServe /\ \E id \in ResourceIds : DeleteResource(id)

LoopSpec == Init /\ [][LoopNext]_vars

\* ---- the mission prototype on its own ----
MissionNext ==
  \/ GetMissions
  \/ \E body \in MissionBodies, now \in Times : PostMissions(body, now)
  \/ \E id \in MissionIds : DeleteMission(id)

MissionSpec == Init /\ [][MissionNext]_vars

\* ---------------------------------------------------------------- properties
\* membership and lookup as the properties read them
Has(seq, x) == \E i \in DOMAIN seq : seq[i] = x

Ids(arr) == {arr[i].id : i \in DOMAIN arr}

ById(arr, id) == arr[CHOOSE i \in DOMAIN arr : arr[i].id = id]

NoDuplicates(seq) == \A i, j \in DOMAIN seq : seq[i] = seq[j] => i = j

Published(name, payload) == emitted' = <<[name |-> name, payload |-> payload]>>

\* the step is the handling of a request of the given route
PostCalloutsStep == req'.op = "POST /callouts" /\ \E now \in Times : PostCallouts(req'.body, now)
DeleteCalloutStep == req'.op = "DELETE /callouts/:id" /\ DeleteCallout(req'.id)
AssignStep == req'.op = "POST /callouts/:id/assign" /\ Assign(req'.id, req'.body.resourceId)
UnassignStep == req'.op = "POST /callouts/:id/unassign" /\ Unassign(req'.id, req'.body.resourceId)
PostResourcesStep == req'.op = "POST /resources" /\ PostResources(req'.body)
PatchResourceStep == req'.op = "PATCH /resources/:id" /\ PatchResource(req'.id, req'.body)
DeleteResourceStep == req'.op = "DELETE /resources/:id" /\ DeleteResource(req'.id)

\* C1: every successful mutating request publishes exactly one event, named
\* after the mutation, whose payload is the entity as it is stored after the
\* request (or {id} for a deletion) and carries the mutated entity's id.
C1_BroadcastCorrespondence ==
  [][ /\ PostCalloutsStep /\ res'.status = 201 =>
           /\ Len(callouts') = Len(callouts) + 1
           /\ Published("callout:new", CalloutJSON(callouts'[Len(callouts')]))
           /\ emitted'[1].payload.id = res'.body[1].id
      /\ DeleteCalloutStep /\ res'.status = 204 =>
           /\ req'.id \in Ids(callouts) /\ req'.id \notin Ids(callouts')
           /\ Published("callout:delete", [id |-> req'.id])
      /\ /\ AssignStep /\ res'.status = 200
         /\ ~Has(ById(callouts, req'.id).assignedResources, req'.body.resourceId)
         => /\ Published("callout:update", CalloutJSON(ById(callouts', req'.id)))
            /\ emitted'[1].payload.id = req'.id
      /\ /\ UnassignStep /\ res'.status = 200
         /\ Has(ById(callouts, req'.id).assignedResources, req'.body.resourceId)
         => /\ Published("callout:update", CalloutJSON(ById(callouts', req'.id)))
            /\ emitted'[1].payload.id = req'.id
      /\ PostResourcesStep /\ res'.status = 201 =>
           /\ Len(resources') = Len(resources) + 1
           /\ Published("resource:new", ResourceJSON(resources'[Len(resources')]))
           /\ emitted'[1].payload.id = res'.body[1].id
      /\ PatchResourceStep /\ res'.status = 200 =>
           /\ Published("resource:update", ResourceJSON(ById(resources', req'.id)))
           /\ emitted'[1].payload.id = req'.id
      /\ DeleteResourceStep /\ res'.status = 204 =>
           /\ req'.id \in Ids(resources) /\ req'.id \notin Ids(resources')
           /\ Published("resource:delete", [id |-> req'.id])
    ]_vars

\* C1 witness: an unassign that removed an id published the updated call-out
C1_Witness ==
  /\ req.op = "POST /callouts/:id/unassign"
  /\ res.status = 200
  /\ Len(emitted) = 1
  /\ emitted[1].name = "callout:update"
  /\ emitted[1].payload.id = req.id
  /\ ~Has(emitted[1].payload.assignedResources, req.body.resourceId)
  /\ emitted[1].payload.assignedResources # <<>>

\* C2: a session that is connected, has applied both snapshots, had no event
\* published while it was starting up and has handled every event sent to it
\* holds the server's call-outs and resources, as serialised, in the same order.
C2_SessionConverges ==
  /\ connected /\ listening
  /\ fetchC.state = "done" /\ fetchR.state = "done"
  /\ ~raced
  /\ inbox = <<>>
  => /\ callOuts = CalloutsJSON(callouts)
     /\ cResources = ResourcesJSON(resources)

\* C2 witness: after its snapshots the session has handled the event of an
\* assign and holds two call-outs, the first with the assigned id
C2_Witness ==
  /\ connected /\ listening
  /\ fetchC.state = "done" /\ fetchR.state = "done"
  /\ ~raced
  /\ inbox = <<>>
  /\ req.op = "POST /callouts/:id/assign"
  /\ Len(emitted) = 1
  /\ Len(callOuts) = 2
  /\ callOuts[1].assignedResources = <<SeedId>>

\* C3: a repeat of an assign that succeeded leaves the call-outs as the first
\* assign left them, and no assignedResources ever holds an id twice.
C3_AssignIdempotent ==
  /\ [](\A i \in DOMAIN callouts : NoDuplicates(callouts[i].assignedResources))
  /\ [][ /\ req.op = "POST /callouts/:id/assign"
         /\ res.status = 200
         /\ req' = req
         /\ AssignStep
         => callouts' = callouts ]_vars

\* C3 witness: the second of two equal assigns was answered, with the id once
C3_Witness ==
  /\ req.op = "POST /callouts/:id/assign"
  /\ res.status = 200
  /\ emitted = <<>>
  /\ ById(callouts, req.id).assignedResources = <<req.body.resourceId>>

\* C4: an assign on an existing call-out publishes one callout:update when the
\* id was not assigned yet and nothing when it was, and answers with the
\* call-out as stored in both cases.
C4_AssignPublishesOnChange ==
  [][ AssignStep /\ req'.id \in Ids(callouts) =>
        /\ res'.status = 200
        /\ res'.body = <<CalloutJSON(ById(callouts', req'.id))>>
        /\ IF Has(ById(callouts, req'.id).assignedResources, req'.body.resourceId)
           THEN emitted' = <<>>
           ELSE Published("callout:update", CalloutJSON(ById(callouts', req'.id)))
    ]_vars

\* C4 witness: an assign of an id that was already assigned published nothing
C4_Witness ==
  /\ req.op = "POST /callouts/:id/assign"
  /\ res.status = 200
  /\ emitted = <<>>
  /\ Has(res.body[1].assignedResources, req.body.resourceId)
  /\ Len(res.body[1].assignedResources) = 2

\* C5: an unassign of an id the call-out does not hold leaves every
\* assignedResources as it was and answers 200 with the call-out as stored.
C5_UnassignAbsentNoChange ==
  [][ /\ UnassignStep /\ req'.id \in Ids(callouts)
      /\ ~Has(ById(callouts, req'.id).assignedResources, req'.body.resourceId)
      => /\ callouts' = callouts
         /\ res'.status = 200
         /\ res'.body = <<CalloutJSON(ById(callouts, req'.id))>>
    ]_vars

\* C5 witness: an unassign of an absent id answered with a call-out that
\* still holds its other id
C5_Witness ==
  /\ req.op = "POST /callouts/:id/unassign"
  /\ req.body.resourceId = 1
  /\ res.status = 200
  /\ res.body[1].assignedResources = <<SeedId>>
  /\ ById(callouts, req.id).assignedResources = <<SeedId>>

\* C6: an unassign on an existing call-out publishes one callout:update when
\* the id was assigned and nothing when it was absent.
C6_UnassignPublishesOnChange ==
  [][ UnassignStep /\ req'.id \in Ids(callouts) =>
        IF Has(ById(callouts, req'.id).assignedResources, req'.body.resourceId)
        THEN Published("callout:update", CalloutJSON(ById(callouts', req'.id)))
        ELSE emitted' = <<>>
    ]_vars

\* C7: the ids within each collection and across both are pairwise distinct,
\* and a created entity gets an id that no entity was given before, deleted
\* ones included.
C7_IdsUnique ==
  /\ [](/\ \A i, j \in DOMAIN callouts : callouts[i].id = callouts[j].id => i = j
        /\ \A i, j \in DOMAIN resources : resources[i].id = resources[j].id => i = j
        /\ Ids(callouts) \cap Ids(resources) = {})
  /\ [][ /\ Len(callouts') > Len(callouts) =>
              callouts'[Len(callouts')].id \notin created \cup Ids(resources)
         /\ Len(resources') > Len(resources) =>
              resources'[Len(resources')].id \notin created \cup Ids(resources) ]_vars

\* C7 witness: a call-out was created after the entity with id 1 was deleted
C7_Witness ==
  /\ req.op = "POST /callouts"
  /\ res.status = 201
  /\ res.body[1].id = 2
  /\ 1 \notin Ids(callouts) \cup Ids(resources)

\* C8: deleting a resource that a call-out holds removes the resource, leaves
\* the call-outs as they were, dangling id included, and publishes no
\* callout:update.
C8_DeleteResourceNoCascade ==
  [][ /\ DeleteResourceStep /\ req'.id \in Ids(resources)
      /\ \E i \in DOMAIN callouts : Has(callouts[i].assignedResources, req'.id)
      => /\ req'.id \notin Ids(resources')
         /\ Len(resources') = Len(resources) - 1
         /\ callouts' = callouts
         /\ \A k \in DOMAIN emitted' : emitted'[k].name # "callout:update"
    ]_vars

\* C8 witness: the deleted resource's id is still assigned to a call-out
C8_Witness ==
  /\ req.op = "DELETE /resources/:id"
  /\ res.status = 204
  /\ req.id \notin Ids(resources)
  /\ \E i \in DOMAIN callouts : Has(callouts[i].assignedResources, req.id)

\* C9: a delete of a call-out id that is not in the collection answers 404,
\* publishes nothing and leaves both collections as they were.
C9_DeleteCalloutNotFound ==
  [][ DeleteCalloutStep /\ req'.id \notin Ids(callouts) =>
        /\ res'.status = 404
        /\ emitted' = <<>>
        /\ callouts' = callouts
        /\ resources' = resources
    ]_vars

\* C9 witness: a delete was answered 404 while other call-outs are stored
C9_Witness ==
  /\ req.op = "DELETE /callouts/:id"
  /\ res.status = 404
  /\ emitted = <<>>
  /\ callouts # <<>>

\* C10: an assign or unassign on a call-out id that is not in the collection
\* answers 404, publishes nothing and leaves the call-outs as they were.
C10_AssignNotFound ==
  [][ (AssignStep \/ UnassignStep) /\ req'.id \notin Ids(callouts) =>
        /\ res'.status = 404
        /\ emitted' = <<>>
        /\ callouts' = callouts
    ]_vars

\* C10 witness: an unassign was answered 404 while a call-out holding the id
\* is stored
C10_Witness ==
  /\ req.op = "POST /callouts/:id/unassign"
  /\ res.status = 404
  /\ emitted = <<>>
  /\ \E i \in DOMAIN callouts : Has(callouts[i].assignedResources, req.body.resourceId)
\* C11: an assign on an existing call-out of an id that no stored resource has
\* and the call-out does not hold yet is answered 200, puts the id at the end
\* of assignedResources and publishes one callout:update.
C11_AssignUnknownResource ==
  [][ /\ AssignStep /\ req'.id \in Ids(callouts)
      /\ req'.body.resourceId \notin Ids(resources)
      /\ ~Has(ById(callouts, req'.id).assignedResources, req'.body.resourceId)
      => /\ res'.status = 200
         /\ ById(callouts', req'.id).assignedResources =
              Append(ById(callouts, req'.id).assignedResources, req'.body.resourceId)
         /\ Published("callout:update", CalloutJSON(ById(callouts', req'.id)))
    ]_vars

\* C11 witness: an assign was answered 200 with an id that is in no stored
\* resource and was given to a resource that has since been deleted
C11_Witness ==
  /\ req.op = "POST /callouts/:id/assign"
  /\ res.status = 200
  /\ Len(emitted) = 1
  /\ req.body.resourceId \notin Ids(resources)
  /\ Has(ById(callouts, req.id).assignedResources, req.body.resourceId)
\* a request body names a call-out: a non-empty name, and a latitude/longitude
\* pair or a grid reference
HasName(body) == body.name # Undefined /\ body.name # <<"">>
HasLocation(body) ==
  \/ body.latitude # Undefined /\ body.longitude # Undefined
  \/ body.osGrid # Undefined /\ body.osGrid # <<"">>
Statuses == {"pending", "active", "completed"}

\* C12: a create whose body has no or an empty name, or neither a
\* latitude/longitude pair nor a grid reference, is answered with a validation
\* error, adds no call-out and publishes nothing; so every stored call-out has
\* a non-empty name and a location.  The handler does not validate: violated.
C12_CreateCalloutValidates ==
  /\ [](\A i \in 1..Len(callouts) : HasName(callouts[i]) /\ HasLocation(callouts[i]))
  /\ [][ PostCalloutsStep /\ ~(HasName(req'.body) /\ HasLocation(req'.body))
         => /\ res'.status = 400
            /\ callouts' = callouts
            /\ emitted' = <<>> ]_vars

\* C13: a create stores status active when the body gives none and the
\* requested status when it is pending, active or completed; every stored
\* call-out has one of the three.  The handler stores body.status as it
\* comes, undefined included: violated.
C13_StatusDefaultsToActive ==
  /\ [](\A i \in 1..Len(callouts) :
          callouts[i].status # Undefined /\ callouts[i].status[1] \in Statuses)
  /\ [][ PostCalloutsStep /\ res'.status = 201
         => callouts'[Len(callouts')].status =
              IF req'.body.status = Undefined THEN <<"active">> ELSE req'.body.status ]_vars

\* C14: a successful create appends exactly one call-out, with no assigned
\* resources, after the stored ones; the response body and the callout:new
\* payload are that stored call-out.
C14_CreateAppendsOne ==
  [][ PostCalloutsStep /\ res'.status = 201
      => /\ Len(callouts') = Len(callouts) + 1
         /\ SubSeq(callouts', 1, Len(callouts)) = callouts
         /\ callouts'[Len(callouts')].assignedResources = <<>>
         /\ res'.body = <<CalloutJSON(callouts'[Len(callouts')])>>
         /\ Published("callout:new", CalloutJSON(callouts'[Len(callouts')]))
    ]_vars

\* C14 witness: a second call-out was created after a stored one
C14_Witness ==
  /\ req.op = "POST /callouts" /\ res.status = 201
  /\ Len(callouts) = 2
  /\ res.body[1].id = callouts[2].id
\* ---- the board ----
BoardUniverse == {"r1", "r2", "r3"}
BoardIds(cols) == UNION {Ids(cols[c]) : c \in DOMAIN cols}
TotalLen(cols) == Len(cols.available) + Len(cols.teamA) + Len(cols.teamB)
\* the places (pool, position) at which cols holds id
Places(cols, id) ==
  {p \in (DOMAIN cols) \X (1..TotalLen(cols)) :
     p[2] <= Len(cols[p[1]]) /\ cols[p[1]][p[2]].id = id}
PoolOf(cols, id) == CHOOSE c \in DOMAIN cols : id \in Ids(cols[c])
PosIn(arr, id) == CHOOSE i \in DOMAIN arr : arr[i].id = id
Without(arr, id) == SelectSeq(arr, LAMBDA r : r.id # id)
InsertAt(arr, i, item) == SubSeq(arr, 1, i - 1) \o <<item>> \o SubSeq(arr, i, Len(arr))
\* the step is handleDragEnd of the event it records
DragStep == drag' # <<>> /\ handleDragEnd(drag'[1])
\* the pool a drop target lies in: the column itself, or the column of the strip
TargetPool(cols, over) ==
  IF over.id \in DOMAIN cols THEN over.id ELSE PoolOf(cols, over.id)

\* C15: over every sequence of drag-end events the board holds the same ids,
\* the pool lengths add up to the same number, and every id is at exactly one
\* place of exactly one pool.
C15_MoveConservation ==
  /\ BoardIds(columns) = BoardUniverse
  /\ TotalLen(columns) = Cardinality(BoardUniverse)
  /\ \A id \in BoardUniverse : Cardinality(Places(columns, id)) = 1

\* C15 witness: after some moves every pool holds one strip
C15_Witness ==
  /\ drag # <<>>
  /\ Len(columns.available) = 1 /\ Len(columns.teamA) = 1 /\ Len(columns.teamB) = 1

\* C16: a drop of x on a target in another pool takes x out of its pool and
\* puts it into the target's pool at the target's index: the place of the
\* strip dropped on, the end for a drop on the column.  The handler appends
\* on a column and does nothing on a strip: violated.
C16_CrossPoolInsertsAtIndex ==
  [][ /\ DragStep
      /\ drag'[1].active.id \in BoardIds(columns)
      /\ drag'[1].over # <<>>
      /\ TargetPool(columns, drag'[1].over[1]) # PoolOf(columns, drag'[1].active.id)
      => LET x == drag'[1].active.id
             over == drag'[1].over[1]
             from == PoolOf(columns, x)
             to == TargetPool(columns, over)
             i == IF over.id \in DOMAIN columns THEN Len(columns[to]) + 1
                  ELSE PosIn(columns[to], over.id)
         IN  /\ columns'[from] = Without(columns[from], x)
             /\ columns'[to] = InsertAt(columns[to], i, ById(columns[from], x))
    ]_vars

\* C17: a drop of x on a target in its own pool puts x at the target's index,
\* the place of the strip dropped on or the last place for a drop on the
\* column, and keeps the order of the other strips.  The handler does nothing
\* on a strip: violated.
C17_SamePoolMovesToIndex ==
  [][ /\ DragStep
      /\ drag'[1].active.id \in BoardIds(columns)
      /\ drag'[1].over # <<>>
      /\ TargetPool(columns, drag'[1].over[1]) = PoolOf(columns, drag'[1].active.id)
      => LET x == drag'[1].active.id
             over == drag'[1].over[1]
             pool == PoolOf(columns, x)
             i == IF over.id \in DOMAIN columns THEN Len(columns[pool])
                  ELSE PosIn(columns[pool], over.id)
         IN  columns'[pool] = InsertAt(Without(columns[pool], x), i, ById(columns[pool], x))
    ]_vars

\* C18: a drag-end event of an id that no pool holds, without a drop target, or
\* with a drop target that names no column, leaves the pools as they were; the
\* handler returns.
C18_StaleOrMissingIsNoop ==
  [][ /\ DragStep
      /\ \/ drag'[1].active.id \notin BoardIds(columns)
         \/ drag'[1].over = <<>>
         \/ drag'[1].over # <<>> /\ drag'[1].over[1].columnId = <<>>
      => columns' = columns
    ]_vars

\* C18 witness: a strip that no pool holds was dropped on a column
C18_Witness ==
  /\ drag # <<>>
  /\ drag[1].active.id \notin BoardIds(columnsBefore)
  /\ drag[1].over # <<>> /\ drag[1].over[1].columnId # <<>>
  /\ columns = columnsBefore

\* C19: a move changes no pool but the one the strip was in and the one it is
\* in afterwards, and in every pool the other strips keep their order.
C19_MoveFrame ==
  [][ DragStep =>
        LET x == drag'[1].active.id
        IN  /\ \A c \in DOMAIN columns :
                 Without(columns'[c], x) = Without(columns[c], x)
            /\ \A c \in DOMAIN columns :
                 x \notin Ids(columns[c]) /\ x \notin Ids(columns'[c])
                 => columns'[c] = columns[c]
    ]_vars

\* C19 witness: the first of three strips of a pool was moved within the pool
C19_Witness ==
  /\ drag # <<>>
  /\ columns # columnsBefore
  /\ \E c \in DOMAIN columns :
       /\ Len(columnsBefore[c]) = 3
       /\ columnsBefore[c][1].id = drag[1].active.id
       /\ Len(columns[c]) = 3
ServedStep == UNCHANGED clientVars /\ Len(inbox') >= Len(inbox)

\* C21: the events of a request go to the session if it is connected when they
\* are published, and never otherwise: nothing is on its way to a session that
\* is not connected, and a session that connects finds nothing waiting.
C21_NoReplay ==
  /\ [](~connected => inbox = <<>>)
  /\ [][ IF ~connected /\ connected'
         THEN inbox' = <<>> /\ UNCHANGED <<callOuts, cResources>>
         ELSE ServedStep => inbox' = IF connected THEN inbox \o emitted' ELSE <<>>
       ]_vars

\* C21 witness: the session connected after an event was published, and
\* nothing is on its way to it
C21_Witness ==
  /\ connected /\ ~listening /\ ~raced
  /\ emitted # <<>>
  /\ callouts # <<>>
  /\ inbox = <<>> /\ callOuts = <<>>
\* a field of a request body is missing, or is the empty string
MissingOrEmpty(v) == v = <<>> \/ v = <<"">>

\* C22: an update of a stored resource sets the fields its body has, the empty
\* string included, and keeps the fields it has not, the id, and the number
\* and order of the resources.  The handler skips a field whose value is the
\* empty string: violated.
C22_PatchSetsPresentFields ==
  [][ PatchResourceStep /\ req'.id \in Ids(resources)
      => /\ Len(resources') = Len(resources)
         /\ \A i \in DOMAIN resources :
              /\ resources'[i].id = resources[i].id
              /\ resources[i].id # req'.id => resources'[i] = resources[i]
              /\ resources[i].id = req'.id =>
                   \A f \in {"name", "category"} :
                     resources'[i][f] = IF req'.body[f] = <<>> THEN resources[i][f]
                                        ELSE req'.body[f]
    ]_vars

\* C23: an update or a deletion of a resource id that is not stored is
\* answered 404, publishes nothing and changes neither collection.
C23_ResourceNotFound ==
  [][ (PatchResourceStep \/ DeleteResourceStep) /\ req'.id \notin Ids(resources)
      => /\ res'.status = 404
         /\ emitted' = <<>>
         /\ resources' = resources
         /\ callouts' = callouts
    ]_vars

\* C23 witness: an update of an id that is not among the stored resources was
\* answered 404
C23_Witness ==
  /\ req.op = "PATCH /resources/:id"
  /\ res.status = 404
  /\ resources # <<>>
  /\ req.id \notin Ids(resources)
  /\ req.body.name # <<>>

\* C24: a create of a resource whose name or category is missing or empty is
\* answered 400, adds no resource and publishes nothing.
C24_CreateResourceValidates ==
  [][ /\ PostResourcesStep
      /\ MissingOrEmpty(req'.body.name) \/ MissingOrEmpty(req'.body.category)
      => /\ res'.status = 400
         /\ resources' = resources
         /\ emitted' = <<>>
    ]_vars

\* C24 witness: a create with an empty name was answered 400
C24_Witness ==
  /\ req.op = "POST /resources"
  /\ req.body.name = <<"">>
  /\ res.status = 400
  /\ emitted = <<>>
Categories == {"personnel", "equipment", "vehicles"}

\* C25: every stored resource has one of the three categories, whatever
\* creates and updates were accepted.  The handlers take any non-empty
\* category: violated.
C25_CategoryInEnum ==
  \A i \in DOMAIN resources :
    resources[i].category # <<>> /\ resources[i].category[1] \in Categories
\* C26: a deletion of a stored call-out removes that call-out and no other,
\* keeps the others in their order, and leaves the resources as they were,
\* those assigned to it included.
C26_DeleteCalloutFrame ==
  [][ DeleteCalloutStep /\ req'.id \in Ids(callouts)
      => /\ Len(callouts') = Len(callouts) - 1
         /\ callouts' = SelectSeq(callouts, LAMBDA c : c.id # req'.id)
         /\ resources' = resources
    ]_vars

\* C26 witness: of two call-outs the first was deleted; the second and the
\* seeded resource are still there
C26_Witness ==
  /\ req.op = "DELETE /callouts/:id"
  /\ res.status = 204
  /\ Len(callouts) = 1
  /\ req.id < callouts[1].id
  /\ SeedId \in Ids(resources)

\* C27: the list of call-outs is the stored call-outs, oldest first, as
\* serialised; the request changes neither collection and publishes nothing.
\* Ids are given in the order of creation, so oldest first is by ascending id.
C27_ListCallouts ==
  [][ req'.op = "GET /callouts" /\ GetCallouts
      => /\ Len(res'.body) = Len(callouts)
         /\ \A i \in DOMAIN callouts : res'.body[i] = CalloutJSON(callouts[i])
         /\ \A i, j \in DOMAIN res'.body : i < j => res'.body[i].id < res'.body[j].id
         /\ Ids(res'.body) \subseteq created
         /\ callouts' = callouts
         /\ resources' = resources
         /\ emitted' = <<>>
    ]_vars

\* C27 witness: the list was asked for after the first of two call-outs was
\* deleted, and has the second alone
C27_Witness ==
  /\ req.op = "GET /callouts"
  /\ Len(res.body) = 1
  /\ res.body[1].id = 2
  /\ created = {1, 2}
\* C30: as long as a call-out is stored, its id, createdAt, name, latitude,
\* longitude and grid reference are what they were when it was created: no
\* step changes them on a call-out it keeps.
C30_CalloutFieldsFixed ==
  [][ \A id \in Ids(callouts) \cap Ids(callouts') :
        \A f \in {"id", "createdAt", "name", "latitude", "longitude", "osGrid"} :
          ById(callouts', id)[f] = ById(callouts, id)[f]
    ]_vars

\* C30 witness: a resource was taken off one of two call-outs, one that has a
\* name and a grid reference
C30_Witness ==
  /\ req.op = "POST /callouts/:id/unassign"
  /\ res.status = 200
  /\ ById(callouts, req.id).osGrid # <<>>
  /\ ById(callouts, req.id).name # <<>>
  /\ Len(callouts) = 2
\* C29: after a start at which the seed could not be read the store has no
\* resources, and it serves requests as ever: a well-formed create of a
\* resource or a call-out is answered 201 and stored, an assign or unassign on
\* a stored call-out is answered 200, an update of a stored resource 200, a
\* deletion of a stored entity 204.
C29_SeedFailureTolerated ==
  /\ resources = <<>>
  /\ [][ /\ PostResourcesStep /\ ~MissingOrEmpty(req'.body.name)
            /\ ~MissingOrEmpty(req'.body.category)
            => res'.status = 201 /\ Len(resources') = Len(resources) + 1
         /\ PostCalloutsStep
            => res'.status = 201 /\ Len(callouts') = Len(callouts) + 1
         /\ (AssignStep \/ UnassignStep) /\ req'.id \in Ids(callouts)
            => res'.status = 200
         /\ PatchResourceStep /\ req'.id \in Ids(resources)
            => res'.status = 200
         /\ DeleteResourceStep /\ req'.id \in Ids(resources)
            => res'.status = 204 /\ Len(resources') = Len(resources) - 1
         /\ DeleteCalloutStep /\ req'.id \in Ids(callouts)
            => res'.status = 204 /\ Len(callouts') = Len(callouts) - 1
       ]_vars

\* C29 witness: the store that started empty holds a call-out, and a resource
\* created since that is assigned to it
C29_Witness ==
  /\ req.op = "POST /callouts/:id/assign"
  /\ res.status = 200
  /\ Len(resources) = 1
  /\ SeedId \notin Ids(resources)
  /\ Len(callouts) = 1
  /\ callouts[1].assignedResources = <<resources[1].id>>
\* C28: the detail pane of the selected call-out renders whatever ids its
\* assignedResources holds; an id that is not in the session's resources does
\* not make the render throw.  The render reads r.name of the resource it did
\* not find: violated.
C28_DanglingIdRenders == ~RenderAssigned.threw
\* C35: assignedResources is in the order of the assigns: an assign of an id
\* the call-out does not hold puts it last, an unassign takes the id out and
\* keeps the others in their order, and so an id assigned again after an
\* unassign is last.
C35_AssignedInInsertionOrder ==
  [][ /\ /\ AssignStep /\ req'.id \in Ids(callouts)
         /\ ~Has(ById(callouts, req'.id).assignedResources, req'.body.resourceId)
         => LET new == ById(callouts', req'.id).assignedResources
            IN  /\ Len(new) = Len(ById(callouts, req'.id).assignedResources) + 1
                /\ new[Len(new)] = req'.body.resourceId
                /\ SubSeq(new, 1, Len(new) - 1) = ById(callouts, req'.id).assignedResources
      /\ UnassignStep /\ req'.id \in Ids(callouts)
         => ById(callouts', req'.id).assignedResources =
              SelectSeq(ById(callouts, req'.id).assignedResources,
                        LAMBDA rid : rid # req'.body.resourceId)
    ]_vars

\* C35 witness: the seeded resource, assigned first of three, was unassigned and
\* assigned again, and is now last; the other two are in their order
C35_Witness ==
  /\ req.op = "POST /callouts/:id/assign"
  /\ req.body.resourceId = SeedId
  /\ res.status = 200 /\ Len(emitted) = 1
  /\ ById(callouts, req.id).assignedResources = <<102, 103, SeedId>>

\* C36: an assign or unassign changes nothing but the assignedResources of its
\* call-out: the other call-outs, the other fields of the call-out, the order
\* of the call-outs and the resources are as they were.
C36_AssignFrame ==
  [][ (AssignStep \/ UnassignStep)
      => /\ resources' = resources
         /\ Len(callouts') = Len(callouts)
         /\ \A i \in DOMAIN callouts :
              /\ callouts[i].id # req'.id => callouts'[i] = callouts[i]
              /\ callouts'[i] = [callouts[i] EXCEPT
                                   !.assignedResources = callouts'[i].assignedResources]
    ]_vars

\* C36 witness: a resource that two call-outs hold was taken off the second
C36_Witness ==
  /\ req.op = "POST /callouts/:id/unassign"
  /\ res.status = 200
  /\ Len(callouts) = 2
  /\ callouts[2].id = req.id
  /\ Has(callouts[1].assignedResources, req.body.resourceId)
  /\ ~Has(callouts[2].assignedResources, req.body.resourceId)
  /\ callouts[2].assignedResources # <<>>
\* C32: whatever the order of the snapshot's response and the callout:new
\* events of creates served meanwhile, the session's list never has two
\* entries with one id.  The snapshot may hold a call-out whose callout:new
\* is still to come, and the listener appends it again: violated.
C32_NoDuplicateAfterRace ==
  \A i, j \in DOMAIN callOuts : callOuts[i].id = callOuts[j].id => i = j

\* C33: once the session has applied the snapshot and handled every event
\* published, it has every stored call-out with the stored assignedResources,
\* and no call-out that was deleted.  A snapshot answered before a mutation
\* and applied after the mutation's event overwrites it: violated.
C33_NoMutationLost ==
  connected /\ listening /\ fetchC.state = "done" /\ inbox = <<>>
  => /\ \A i \in DOMAIN callouts :
          \E k \in DOMAIN callOuts :
            /\ callOuts[k].id = callouts[i].id
            /\ callOuts[k].assignedResources = callouts[i].assignedResources
     /\ \A k \in DOMAIN callOuts : callOuts[k].id \in Ids(callouts)
\* C34: when the events of a request are out, the store has the mutation: the
\* lists a GET would send hold the entity of a new or update event as the
\* event has it, and do not hold the id of a delete event.
C34_PublishedAfterApplied ==
  \A k \in DOMAIN emitted :
    LET e == emitted[k]
    IN  /\ e.name \in {"callout:new", "callout:update"}
             => Has(CalloutsJSON(callouts), e.payload)
        /\ e.name = "callout:delete" => e.payload.id \notin Ids(callouts)
        /\ e.name \in {"resource:new", "resource:update"}
             => Has(ResourcesJSON(resources), e.payload)
        /\ e.name = "resource:delete" => e.payload.id \notin Ids(resources)

\* C34 witness: resource:delete of the seeded resource is out, and the store,
\* which still has a call-out that holds its id, has no resource
C34_Witness ==
  /\ emitted # <<>>
  /\ emitted[1].name = "resource:delete"
  /\ emitted[1].payload.id = SeedId
  /\ resources = <<>>
  /\ \E i \in DOMAIN callouts : Has(callouts[i].assignedResources, SeedId)

\* the step is the session's listener handling the event that came first
HandledStep == inbox # <<>> /\ inbox' = Tail(inbox) /\ listening

\* C37: in the session an update or delete event of an id its list does not
\* have leaves the list as it was, and an id comes into a list only with the
\* snapshot or with a new event.
C37_UnknownIdIgnored ==
  [][ /\ /\ HandledStep
         /\ Head(inbox).name \in {"callout:update", "callout:delete"}
         /\ Head(inbox).payload.id \notin Ids(callOuts)
         => callOuts' = callOuts
      /\ /\ HandledStep
         /\ Head(inbox).name \in {"resource:update", "resource:delete"}
         /\ Head(inbox).payload.id \notin Ids(cResources)
         => cResources' = cResources
      /\ Ids(callOuts') \ Ids(callOuts) \subseteq
           IF fetchC.state = "response" /\ fetchC'.state = "done" THEN Ids(fetchC.body)
           ELSE IF HandledStep /\ Head(inbox).name = "callout:new"
           THEN {Head(inbox).payload.id} ELSE {}
      /\ Ids(cResources') \ Ids(cResources) \subseteq
           IF fetchR.state = "response" /\ fetchR'.state = "done" THEN Ids(fetchR.body)
           ELSE IF HandledStep /\ Head(inbox).name = "resource:new"
           THEN {Head(inbox).payload.id} ELSE {}
    ]_vars

\* C37 witness: the session, whose list an old snapshot left empty, has handled
\* the callout:update of an assign on a stored call-out, and its list is empty
C37_Witness ==
  /\ connected /\ listening /\ fetchC.state = "done"
  /\ req.op = "POST /callouts/:id/assign"
  /\ Len(emitted) = 1
  /\ inbox = <<>>
  /\ callouts # <<>>
  /\ callOuts = <<>>
\* C38: in the prototype, however often the delete route has been registered,
\* DELETE /missions/:id of a mission in the list takes it out of the list and
\* leaves the others in their order, publishes one mission:delete with its id
\* and nothing else, and sends one response, 204.
C38_DeleteMissionOnce ==
  [][ \A id \in Ids(missions) :
        mreq'.op = "DELETE /missions/:id" /\ mreq'.id = id /\ DeleteMission(id)
        => /\ missions' = SelectSeq(missions, LAMBDA m : m.id # id)
           /\ memitted' = <<Event("mission:delete", [id |-> id])>>
           /\ mres' = <<Response(204, <<>>)>>
    ]_vars

\* C38 witness: the delete route was registered three times, and the delete
\* of one of the three missions has published its event and sent 204
C38_Witness ==
  /\ deleteLayers >= 3
  /\ mreq.op = "DELETE /missions/:id"
  /\ Len(missions) = deleteLayers - 1
  /\ memitted = <<Event("mission:delete", [id |-> mreq.id])>>
  /\ mres = <<Response(204, <<>>)>>
\* PATCH of id with body, applied to a list in one go
PatchOf(list, id, body) ==
  [i \in DOMAIN list |->
     IF list[i].id # id THEN list[i]
     ELSE [id |-> id,
           name |-> IF Truthy(body.name) THEN body.name ELSE list[i].name,
           category |-> IF Truthy(body.category) THEN body.category ELSE list[i].category]]

\* the lists a serial order of the requests so far can leave: the list as it
\* is when no handler runs, else the list before and after the one that runs
SerialLists ==
  IF running = Idle THEN {resources}
  ELSE {running[1].before, PatchOf(running[1].before, running[1].r.id, running[1].body)}

\* C31: a request is applied as one: while the handler of a PATCH runs no
\* other request is taken up; the list a GET /resources sends is one that a
\* serial order of the requests leaves, with the PATCH wholly in it or not in
\* it; and when the PATCH ends the list is the list it found with the whole
\* PATCH applied.
C31_RequestsAtomic ==
  [][ /\ running # Idle => req' = req
      /\ fetchR.state = "sent" /\ fetchR'.state = "response"
           => \E list \in SerialLists : fetchR'.body = ResourcesJSON(list)
      /\ running # Idle /\ running' = Idle
           => resources' = PatchOf(running[1].before, running[1].r.id, running[1].body)
    ]_vars

\* C31 witness: a PATCH with a name and a category has run to its end on the
\* stored resource, after a GET /resources was answered
C31_Witness ==
  /\ running = Idle
  /\ req.op = "PATCH /resources/:id"
  /\ res.status = 200
  /\ Truthy(req.body.name) /\ Truthy(req.body.category)
  /\ fetchR.state = "response"
  /\ \E i \in DOMAIN resources :
       resources[i].id = req.id /\ resources[i].name = req.body.name
====
